---- MODULE Spec2Model ----
(***************************************************************************)
(* Model of the handle layer of z3/src/model.rs and z3/src/tactic.rs:      *)
(* reference-counted handles (Model, Tactic, ApplyResult) over native      *)
(* objects that live in a shared, Rc-owned Context.                        *)
(*                                                                         *)
(* The native engine is opaque to these files.  Every native call is       *)
(* modelled by the outcomes it can hand back to the caller (a null pointer *)
(* or an object of the context); the Rust code around the call is          *)
(* translated statement by statement.                                      *)
(***************************************************************************)
EXTENDS Integers, Sequences, FiniteSets, Bags, TLC

(***************************************************************************)
(* Bounds of the model.                                                    *)
(***************************************************************************)
MaxCtx == 2
MaxObj == 2
MaxHandles == 2

Ctx == 1..MaxCtx
Obj == 1..MaxObj
NULL == 0
Ptr == Obj \cup {NULL}

VARIABLES
    ctxStrong,  \* [Ctx -> Nat]: strong count of each Rc<Context>
    userRc,     \* [Ctx -> Nat]: the Rc<Context> clones the caller itself holds
    heap,       \* [Obj -> native object]: kind, context, reference count
    handles,    \* bag of live handles [kind, ctx, ptr]
    slv,        \* the Solver or Optimize the caller works with
    err,        \* [Ctx -> the context's last-error slot]
    ret,        \* what the last operation did and returned
    tf,         \* a try_for call: the Duration given, the timeout passed on
    counts,     \* the native model's numbers of constants and of functions
    iter,       \* the ModelIter in use, and what it has yielded
    decls,      \* the native model's table: each declaration's interpretation
    call,       \* a get_func_interp / get_func_interp_as_const call
    gheap,      \* the native goals: reference counts, the engine's own reference
    sub,        \* the iterator list_subgoals returned, with the ApplyResult in it
    goals,      \* the Goal handles yielded so far, in order
    present,    \* the constants the native model interprets
    ev,         \* the last eval / get_const_interp call and what it returned
    bn,         \* a tactic made by name: the name, and how far it has got
    fm,         \* a rendering to text: the engine's string and what came of it
    tnode,      \* the engine's tactic objects: what each one does
    strat,      \* per tactic handle, the call of the binding that made it
    app         \* the last apply: tactic, goal, result, subgoals listed

handleVars == <<ctxStrong, userRc, heap, handles, slv, err, ret>>
iterVars == <<counts, iter>>
interpVars == <<decls, call>>
subVars == <<gheap, sub, goals>>
evalVars == <<present, ev>>
stratVars == <<tnode, strat, app>>
restVars == <<evalVars, bn, fm, stratVars>>
vars == <<ctxStrong, userRc, heap, handles, slv, err, ret, tf, counts, iter,
          decls, call, gheap, sub, goals, present, ev, bn, fm, tnode, strat, app>>

(***************************************************************************)
(* Native objects.  rc is the engine's reference count, eng the part of it *)
(* the engine holds itself (a solver keeps its current model alive).       *)
(***************************************************************************)
Free == [kind |-> "free", ctx |-> 0, rc |-> 0, eng |-> 0]

IsLive(hp, p) == p # NULL /\ hp[p].kind # "free"

FreeObjs(hp) == {o \in Obj : hp[o].kind = "free"}

\* The object a native constructor hands out: the lowest free slot.
Fresh(hp) == CHOOSE o \in FreeObjs(hp) : \A q \in FreeObjs(hp) : o <= q

Alloc(hp, k, c, e) == [hp EXCEPT ![Fresh(hp)] = [kind |-> k, ctx |-> c, rc |-> e, eng |-> e]]

Z3_inc_ref(hp, p) ==
    IF IsLive(hp, p) THEN [hp EXCEPT ![p].rc = @ + 1] ELSE hp

Z3_dec_ref(hp, p) ==
    IF ~IsLive(hp, p) THEN hp
    ELSE IF hp[p].rc <= 1 THEN [hp EXCEPT ![p] = Free]
    ELSE [hp EXCEPT ![p].rc = @ - 1]

\* The engine gives up a reference it held itself.
EngineRelease(hp, p) ==
    IF ~IsLive(hp, p) \/ hp[p].eng = 0 THEN hp
    ELSE Z3_dec_ref([hp EXCEPT ![p].eng = @ - 1], p)

(***************************************************************************)
(* Handles.                                                                *)
(***************************************************************************)
Handle(k, c, p) == [kind |-> k, ctx |-> c, ptr |-> p]

One(h) == SetToBag({h})

Live(k) == {h \in BagToSet(handles) : h.kind = k}

RECURSIVE BagCount(_, _)
BagCount(S, B) ==
    IF S = {} THEN 0
    ELSE LET x == CHOOSE y \in S : TRUE
         IN CopiesIn(x, B) + BagCount(S \ {x}, B)

HandlesOn(hs, p) == BagCount({h \in BagToSet(hs) : h.ptr = p}, hs)
HandlesIn(hs, c) == BagCount({h \in BagToSet(hs) : h.ctx = c}, hs)

(***************************************************************************)
(* The engine's last-error slot of a context: an error code and the        *)
(* message stored with it, a NUL-terminated byte string.                   *)
(***************************************************************************)
OkSlot == [code |-> "OK", msg |-> <<111, 107, 0>>]
ErrInvalidArg == [code |-> "INVALID_ARG", msg |-> <<65, 0>>]
ErrException == [code |-> "EXCEPTION", msg |-> <<66, 255, 0>>]
ErrOutcomes ==
    { ErrInvalidArg, ErrException,
      [code |-> "EXCEPTION", msg |-> <<195, 169, 226, 130, 172, 0>>],
      [code |-> "EXCEPTION", msg |-> <<240, 159, 152, 128, 0>>],
      [code |-> "EXCEPTION", msg |-> <<195, 0, 169>>],
      [code |-> "EXCEPTION", msg |-> <<192, 128, 0>>],
      [code |-> "EXCEPTION", msg |-> <<237, 160, 128, 0>>] }

\* Every native call on a context resets its slot on entry; a failing call
\* then records its error.
Called(st, c, slot) == [st EXCEPT !.err[c] = slot]

Z3_get_error_code(slot) == slot.code
Z3_get_error_msg(slot, code) == IF code = slot.code THEN slot.msg ELSE OkSlot.msg

(***************************************************************************)
(* The state an operation works on, threaded through its statements in     *)
(* program order.  incNull and deadDec record what the operation did: an   *)
(* inc_ref issued on a null pointer, a dec_ref issued after the owning     *)
(* context was destroyed.                                                  *)
(***************************************************************************)
St == [strong |-> ctxStrong, user |-> userRc, heap |-> heap, handles |-> handles,
       err |-> err, incNull |-> FALSE, deadDec |-> FALSE]

\* Rc::clone of a context reference.
Rc_clone(st, c) == [st EXCEPT !.strong[c] = @ + 1]

\* Context's destructor: the engine deletes the context and all its objects.
Context_drop(hp, c) == [o \in Obj |-> IF hp[o].ctx = c THEN Free ELSE hp[o]]

\* Dropping one Rc<Context>; the last one destroys the context.
Rc_drop(st, c) ==
    IF st.strong[c] <= 1
    THEN [st EXCEPT !.strong[c] = 0, !.heap = Context_drop(@, c), !.err[c] = OkSlot]
    ELSE [st EXCEPT !.strong[c] = @ - 1]

\* The caller hands an Rc<Context> to a constructor by value: its own
\* (moved) or a clone made for the call.
PassRc(st, c, moved) ==
    IF moved THEN [st EXCEPT !.user[c] = @ - 1] ELSE Rc_clone(st, c)

\* What a native constructor can return: null, or a new object of context c
\* (reference count 0 until the caller takes a reference).
NativeNew(hp, k, c) ==
    {[heap |-> hp, ptr |-> NULL, slot |-> ErrException]} \cup
    (IF FreeObjs(hp) = {} THEN {}
     ELSE {[heap |-> Alloc(hp, k, c, 0), ptr |-> Fresh(hp), slot |-> OkSlot]})

NonNull(outs) == {o \in outs : o.ptr # NULL}

\* Not the code: a wrap that takes no reference of its own.
Model_wrap_noinc(st, c, p) ==
    [st EXCEPT !.handles = @ (+) One(Handle("model", c, p))]

\* Model::wrap; the Rc<Context> argument has been passed in by the caller.
Model_wrap(st, c, p) ==
    [st EXCEPT !.heap = Z3_inc_ref(@, p),
               !.err[c] = OkSlot,
               !.incNull = @ \/ p = NULL,
               !.handles = @ (+) One(Handle("model", c, p))]

Tactic_wrap(st, c, p) ==
    [st EXCEPT !.heap = Z3_inc_ref(@, p),
               !.err[c] = OkSlot,
               !.incNull = @ \/ p = NULL,
               !.handles = @ (+) One(Handle("tactic", c, p))]

ApplyResult_wrap(st, c, p) ==
    [st EXCEPT !.heap = Z3_inc_ref(@, p),
               !.err[c] = OkSlot,
               !.incNull = @ \/ p = NULL,
               !.handles = @ (+) One(Handle("apply_result", c, p))]

\* Not the code: a drop that releases the context before its dec_ref.
Tactic_drop_rc_first(st, h) ==
    LET s1 == Rc_drop([st EXCEPT !.handles = @ (-) One(h)], h.ctx)
    IN [s1 EXCEPT !.heap = Z3_dec_ref(@, h.ptr),
                  !.err[h.ctx] = OkSlot,
                  !.deadDec = @ \/ s1.strong[h.ctx] = 0]

\* Drop for Model / Tactic / ApplyResult: the destructor body issues the
\* dec_ref, then the fields are dropped, the Rc<Context> among them.
Model_drop(st, h) ==
    Rc_drop([st EXCEPT !.heap = Z3_dec_ref(@, h.ptr),
                       !.err[h.ctx] = OkSlot,
                       !.deadDec = @ \/ st.strong[h.ctx] = 0,
                       !.handles = @ (-) One(h)], h.ctx)

Tactic_drop(st, h) ==
    Rc_drop([st EXCEPT !.heap = Z3_dec_ref(@, h.ptr),
                       !.err[h.ctx] = OkSlot,
                       !.deadDec = @ \/ st.strong[h.ctx] = 0,
                       !.handles = @ (-) One(h)], h.ctx)

ApplyResult_drop(st, h) ==
    Rc_drop([st EXCEPT !.heap = Z3_dec_ref(@, h.ptr),
                       !.err[h.ctx] = OkSlot,
                       !.deadDec = @ \/ st.strong[h.ctx] = 0,
                       !.handles = @ (-) One(h)], h.ctx)

\* The record an operation leaves in ret.
Ret(op, c, p, v, m, st) ==
    [op |-> op, ctx |-> c, native |-> p, val |-> v, msg |-> m,
     incNull |-> st.incNull, deadDec |-> st.deadDec]

\* The operation's final state becomes the next state.
Commit(st) ==
    /\ ctxStrong' = st.strong
    /\ userRc' = st.user
    /\ heap' = st.heap
    /\ handles' = st.handles
    /\ err' = st.err

NoMsg == <<>>
Room == BagCardinality(handles) < MaxHandles

(***************************************************************************)
(* The caller's own context references.                                    *)
(***************************************************************************)
UserDropCtx(c) ==
    /\ userRc[c] >= 1
    /\ Commit(Rc_drop([St EXCEPT !.user[c] = @ - 1], c))
    /\ ret' = Ret("drop_ctx", c, NULL, "Unit", NoMsg, St)
    /\ UNCHANGED slv

(***************************************************************************)
(* Solver and Optimize, the collaborators a Model is taken from.           *)
(***************************************************************************)
Sources == {"solver", "optimize"}
NoSolver == [kind |-> "none", res |-> "none", ctx |-> 0, mdl |-> NULL]

\* Solver::new(ctx.clone()) / Optimize::new(ctx.clone())
Solver_new(s, c) ==
    /\ slv.kind = "none"
    /\ userRc[c] >= 1
    /\ Commit(Rc_clone(St, c))
    /\ slv' = [kind |-> s, res |-> "new", ctx |-> c, mdl |-> NULL]
    /\ ret' = Ret("solver_new", c, NULL, "Handle", NoMsg, St)

\* check(): the engine discards the previous model; a Sat answer comes with
\* a model, an Unsat answer with none, an Unknown answer with either.
Solver_check(r) ==
    /\ slv.kind # "none"
    /\ LET hp1 == EngineRelease(heap, slv.mdl)
       IN \E withModel \in BOOLEAN :
            /\ r = "sat" => withModel
            /\ r = "unsat" => ~withModel
            /\ withModel => FreeObjs(hp1) # {}
            /\ Commit([St EXCEPT !.heap = IF withModel
                                            THEN Alloc(hp1, "model", slv.ctx, 1)
                                            ELSE hp1,
                                  !.err[slv.ctx] = OkSlot])
            /\ slv' = [slv EXCEPT !.res = r,
                                  !.mdl = IF withModel THEN Fresh(hp1) ELSE NULL]
            /\ ret' = Ret("check", slv.ctx, NULL, r, NoMsg, St)

Solver_drop ==
    /\ slv.kind # "none"
    /\ Commit(Rc_drop([St EXCEPT !.heap = EngineRelease(@, slv.mdl)], slv.ctx))
    /\ slv' = NoSolver
    /\ ret' = Ret("solver_drop", slv.ctx, NULL, "Unit", NoMsg, St)

\* Z3_solver_get_model / Z3_optimize_get_model: the current model, or null
\* and an error when there is none.
Z3_solver_get_model == slv.mdl
Z3_optimize_get_model == slv.mdl
NoModel(st) == Called(st, slv.ctx, ErrInvalidArg)

\* Not the code: of_solver without the is_null test.
of_solver_nocheck(m) ==
    LET st == Model_wrap(Rc_clone(St, slv.ctx), slv.ctx, m)
    IN /\ Commit(st)
       /\ ret' = Ret("of_solver", slv.ctx, m, "Some", NoMsg, st)

\* Model::of_solver, after Z3_solver_get_model returned m.
of_solver(m) ==
    IF m = NULL
    THEN /\ Commit(NoModel(St))
         /\ ret' = Ret("of_solver", slv.ctx, m, "None", NoMsg, St)
    ELSE LET st == Model_wrap(Rc_clone(St, slv.ctx), slv.ctx, m)
         IN /\ Commit(st)
            /\ ret' = Ret("of_solver", slv.ctx, m, "Some", NoMsg, st)

\* Model::of_optimize, after Z3_optimize_get_model returned m.
of_optimize(m) ==
    IF m = NULL
    THEN /\ Commit(NoModel(St))
         /\ ret' = Ret("of_optimize", slv.ctx, m, "None", NoMsg, St)
    ELSE LET st == Model_wrap(Rc_clone(St, slv.ctx), slv.ctx, m)
         IN /\ Commit(st)
            /\ ret' = Ret("of_optimize", slv.ctx, m, "Some", NoMsg, st)

Model_of_solver ==
    /\ slv.kind = "solver"
    /\ Room \/ Z3_solver_get_model = NULL
    /\ of_solver(Z3_solver_get_model)
    /\ UNCHANGED slv

Model_of_optimize ==
    /\ slv.kind = "optimize"
    /\ Room \/ Z3_optimize_get_model = NULL
    /\ of_optimize(Z3_optimize_get_model)
    /\ UNCHANGED slv

\* Not the code: the translated model wrapped with the source's context.
Model_translate_in_source(h, dest, moved) ==
    /\ Room
    /\ userRc[dest] >= 1
    /\ \E out \in NativeNew(heap, "model", dest) :
         LET st == Model_wrap(Rc_clone(Rc_drop(PassRc([St EXCEPT !.heap = out.heap],
                                                      dest, moved), dest), h.ctx),
                              h.ctx, out.ptr)
         IN /\ Commit(st)
            /\ ret' = Ret("translate", h.ctx, out.ptr, "Handle", NoMsg, st)
    /\ UNCHANGED slv

\* Model::translate(&self, dest)
Model_translate(h, dest, moved) ==
    /\ Room
    /\ userRc[dest] >= 1
    /\ \E out \in NativeNew(heap, "model", dest) :
         LET st == Model_wrap(PassRc([St EXCEPT !.heap = out.heap], dest, moved),
                              dest, out.ptr)
         IN /\ Commit(st)
            /\ ret' = Ret("translate", dest, out.ptr, "Handle", NoMsg, st)
    /\ UNCHANGED slv

(***************************************************************************)
(* C strings and their decoding.  A native string is the bytes up to the   *)
(* first NUL; to_str accepts exactly the well-formed UTF-8 sequences and   *)
(* yields the code points.                                                 *)
(***************************************************************************)
RECURSIVE CStr_from_ptr(_)
CStr_from_ptr(mem) ==
    IF mem = <<>> \/ Head(mem) = 0 THEN <<>>
    ELSE <<Head(mem)>> \o CStr_from_ptr(Tail(mem))

IsCont(b) == b >= 128 /\ b <= 191
Utf8Error == [ok |-> FALSE, text |-> <<>>]

RECURSIVE to_str(_)
to_str(bs) ==
    IF bs = <<>> THEN [ok |-> TRUE, text |-> <<>>]
    ELSE LET b1 == bs[1]
             n == IF b1 < 128 THEN 1
                  ELSE IF b1 >= 194 /\ b1 <= 223 THEN 2
                  ELSE IF b1 >= 224 /\ b1 <= 239 THEN 3
                  ELSE IF b1 >= 240 /\ b1 <= 244 THEN 4
                  ELSE 0
         IN IF n = 0 \/ Len(bs) < n THEN Utf8Error
            ELSE LET wellFormed ==
                         /\ \A i \in 2..n : IsCont(bs[i])
                         /\ b1 = 224 => bs[2] >= 160
                         /\ b1 = 237 => bs[2] <= 159
                         /\ b1 = 240 => bs[2] >= 144
                         /\ b1 = 244 => bs[2] <= 143
                     cp == IF n = 1 THEN b1
                           ELSE IF n = 2 THEN (b1 - 192) * 64 + (bs[2] - 128)
                           ELSE IF n = 3 THEN (b1 - 224) * 4096 + (bs[2] - 128) * 64
                                              + (bs[3] - 128)
                           ELSE (b1 - 240) * 262144 + (bs[2] - 128) * 4096
                                + (bs[3] - 128) * 64 + (bs[4] - 128)
                     rest == to_str(SubSeq(bs, n + 1, Len(bs)))
                 IN IF wellFormed /\ rest.ok
                    THEN [ok |-> TRUE, text |-> <<cp>> \o rest.text]
                    ELSE Utf8Error

\* "Couldn't retrieve error message from z3: got invalid UTF-8"
FallbackMsg == [kind |-> "fallback", text |-> <<>>]
Decoded(t) == [kind |-> "decoded", text |-> t]

(***************************************************************************)
(* Tactic constructors and combinators.  Each wraps whatever pointer the   *)
(* native call returned.                                                   *)
(***************************************************************************)
Names == {"catalog", "unlisted", "embedded_nul"}

\* Z3_mk_tactic: null for a name that is not in the catalog.
Z3_mk_tactic(hp, c, name) ==
    IF name = "catalog" THEN NonNull(NativeNew(hp, "tactic", c))
    ELSE {[heap |-> hp, ptr |-> NULL, slot |-> ErrInvalidArg]}

\* Tactic::new after Z3_mk_tactic returned out; st0 holds the ctx argument.
new(st0, c, name, out) ==
    LET st == Tactic_wrap([st0 EXCEPT !.heap = out.heap], c, out.ptr)
    IN /\ Commit(st)
       /\ ret' = Ret("new", c, out.ptr, "Handle", NoMsg, st)

Tactic_new(c, name, moved) ==
    /\ Room
    /\ userRc[c] >= 1
    /\ LET st0 == PassRc(St, c, moved)
       IN IF name = "embedded_nul"
          THEN \* CString::new(name).unwrap() panics; unwinding drops ctx
               LET st == Rc_drop(st0, c)
               IN /\ Commit(st)
                  /\ ret' = Ret("new", c, NULL, "Panic", NoMsg, st)
          ELSE \E out \in Z3_mk_tactic(heap, c, name) : new(st0, c, name, out)
    /\ UNCHANGED slv

\* A constructor taking ctx: Rc<Context>: wrap(ctx, native result).
FromCtx(op, c, moved) ==
    /\ Room
    /\ userRc[c] >= 1
    /\ \E out \in NativeNew(heap, "tactic", c) :
         LET st == Tactic_wrap(PassRc([St EXCEPT !.heap = out.heap], c, moved),
                               c, out.ptr)
         IN /\ Commit(st)
            /\ ret' = Ret(op, c, out.ptr, "Handle", NoMsg, st)
    /\ UNCHANGED slv

\* Not the code: the new handle built on self's context reference, with no
\* clone of its own.
FromSelf_shared_ctx(op, t) ==
    /\ Room
    /\ \E out \in NativeNew(heap, "tactic", t.ctx) :
         LET st == Tactic_wrap([St EXCEPT !.heap = out.heap], t.ctx, out.ptr)
         IN /\ Commit(st)
            /\ ret' = Ret(op, t.ctx, out.ptr, "Handle", NoMsg, st)
    /\ UNCHANGED slv

\* A combinator on &self: wrap(self.ctx.clone(), native result).
FromSelf(op, t) ==
    /\ Room
    /\ \E out \in NativeNew(heap, "tactic", t.ctx) :
         LET st == Tactic_wrap(Rc_clone([St EXCEPT !.heap = out.heap], t.ctx),
                               t.ctx, out.ptr)
         IN /\ Commit(st)
            /\ ret' = Ret(op, t.ctx, out.ptr, "Handle", NoMsg, st)
    /\ UNCHANGED slv

Tactic_create_skip(c, moved) == FromCtx("create_skip", c, moved)
Tactic_create_fail(c, moved) == FromCtx("create_fail", c, moved)
Tactic_repeat(c, t, moved) == t \in Live("tactic") /\ FromCtx("repeat", c, moved)
Tactic_cond(c, t1, t2, moved) ==
    t1 \in Live("tactic") /\ t2 \in Live("tactic") /\ FromCtx("cond", c, moved)
Tactic_fail_if(c, moved) == FromCtx("fail_if", c, moved)
Tactic_try_for(t) == FromSelf("try_for", t)
Tactic_and_then(t, t2) == t2 \in Live("tactic") /\ FromSelf("and_then", t)
Tactic_or_else(t, t2) == t2 \in Live("tactic") /\ FromSelf("or_else", t)
Tactic_probe_or_else(t, t2) == t2 \in Live("tactic") /\ FromSelf("probe_or_else", t)
Tactic_when(t) == FromSelf("when", t)

\* Tactic::solver: Solver::wrap(self.ctx.clone(), native result).
Tactic_solver(t) ==
    /\ slv.kind = "none"
    /\ \E p \in {NULL, 1} :
         /\ Commit(Rc_clone(St, t.ctx))
         /\ slv' = [kind |-> "solver", res |-> "new", ctx |-> t.ctx, mdl |-> NULL]
         /\ ret' = Ret("solver", t.ctx, p, "Handle", NoMsg, St)

(***************************************************************************)
(* Tactic::apply.                                                          *)
(***************************************************************************)
\* Z3_tactic_apply / Z3_tactic_apply_ex: an apply result and a clean error
\* slot, or null with the error the engine recorded.
Z3_tactic_apply(hp, c) ==
    NonNull(NativeNew(hp, "apply_result", c)) \cup {[heap |-> hp, ptr |-> NULL, slot |-> e] : e \in ErrOutcomes}

\* Not the code: the message's bytes taken as they are, with no fallback.
ErrorMessage_nofallback(slot) ==
    Decoded(CStr_from_ptr(Z3_get_error_msg(slot, Z3_get_error_code(slot))))

\* The String of the Err arm.
ErrorMessage(slot) ==
    LET code == Z3_get_error_code(slot)
        msg == Z3_get_error_msg(slot, code)
        s == to_str(CStr_from_ptr(msg))
    IN IF s.ok THEN Decoded(s.text) ELSE FallbackMsg

\* Tactic::apply after the native call returned out.
apply(t, out) ==
    IF out.ptr = NULL
    THEN /\ Commit(Called(St, t.ctx, out.slot))
         /\ ret' = Ret("apply", t.ctx, out.ptr, "Err", ErrorMessage(out.slot), St)
    ELSE LET st == ApplyResult_wrap(Rc_clone([St EXCEPT !.heap = out.heap], t.ctx),
                                    t.ctx, out.ptr)
         IN /\ Commit(st)
            /\ ret' = Ret("apply", t.ctx, out.ptr, "Ok", NoMsg, st)

Tactic_apply(t, params) ==
    /\ Room
    /\ \E out \in Z3_tactic_apply(heap, t.ctx) :
         apply(t, out)
    /\ UNCHANGED slv

(***************************************************************************)
(* Destructors.                                                            *)
(***************************************************************************)
Drop(op, h, st) ==
    /\ Commit(st)
    /\ ret' = Ret(op, h.ctx, h.ptr, "Unit", NoMsg, st)
    /\ UNCHANGED slv

Drop_Model(h) == Drop("drop_model", h, Model_drop(St, h))
Drop_Tactic(h) == Drop("drop_tactic", h, Tactic_drop(St, h))
Drop_ApplyResult(h) == Drop("drop_apply_result", h, ApplyResult_drop(St, h))

(***************************************************************************)
(* The handle life cycle.                                                  *)
(***************************************************************************)
HandleInit ==
    /\ ctxStrong = [c \in Ctx |-> 1]
    /\ userRc = [c \in Ctx |-> 1]
    /\ heap = [o \in Obj |-> Free]
    /\ handles = EmptyBag
    /\ slv = NoSolver
    /\ err = [c \in Ctx |-> OkSlot]
    /\ ret = [op |-> "init", ctx |-> NULL, native |-> NULL, val |-> "Unit",
              msg |-> NoMsg, incNull |-> FALSE, deadDec |-> FALSE]


(***************************************************************************)
(* Tactic::try_for's timeout.  Duration is (secs: u64, nanos: u32 below    *)
(* 10^9); as_millis is a u128.  Numbers wider than the checker's integers  *)
(* are kept exactly, as little-endian limbs of 16 bits.                    *)
(***************************************************************************)
LimbBase == 2^16
U64Limbs == 4
U128Limbs == 8

Zeros(n) == [i \in 1..n |-> 0]
\* A number below 2^31 as n limbs.
Limbs(x, n) == <<x % LimbBase, x \div LimbBase>> \o Zeros(n - 2)
Widen(x, n) == x \o Zeros(n - Len(x))

\* x * k + carry, limb by limb, in the width of x.
RECURSIVE MulAdd(_, _, _)
MulAdd(x, k, carry) ==
    IF x = <<>> THEN <<>>
    ELSE LET v == Head(x) * k + carry
         IN <<v % LimbBase>> \o MulAdd(Tail(x), k, v \div LimbBase)

\* Duration::as_millis: secs * 1000 + nanos / 1_000_000, as u128.
as_millis(d) == MulAdd(Widen(d.secs, U128Limbs), 1000, d.nanos \div 1000000)

C_UINT_MAX == <<LimbBase - 1, LimbBase - 1>>

\* c_uint::try_from(u128): the value when it fits 32 bits.
c_uint_try_from(x) ==
    IF \A i \in 3..Len(x) : x[i] = 0
    THEN [ok |-> TRUE, v |-> <<x[1], x[2]>>]
    ELSE [ok |-> FALSE, v |-> <<0, 0>>]

\* Not the code: the cast `as c_uint`, which keeps the low 32 bits.
timeout_ms_truncating(d) == <<as_millis(d)[1], as_millis(d)[2]>>

\* timeout_ms of Tactic::try_for: try_from(..).unwrap_or(c_uint::MAX)
timeout_ms(d) ==
    LET r == c_uint_try_from(as_millis(d))
    IN IF r.ok THEN r.v ELSE C_UINT_MAX

Durations ==
    [secs : {Limbs(0, U64Limbs), Limbs(1, U64Limbs), Limbs(4294966, U64Limbs),
             Limbs(4294967, U64Limbs), Limbs(4294968, U64Limbs),
             <<LimbBase - 1, LimbBase - 1, 0, 0>>, <<0, 0, 1, 0>>,
             <<0, 0, 0, 1>>,
             <<LimbBase - 1, LimbBase - 1, LimbBase - 1, LimbBase - 1>>},
     nanos : {0, 999999, 1000000, 294999999, 295000000, 295999999, 296000000,
              999999999}]

TfIdle == [d |-> [secs |-> Zeros(U64Limbs), nanos |-> 0], called |-> FALSE,
           passed |-> <<>>]

\* self.try_for(timeout) up to the native call Z3_tactic_try_for(.., timeout_ms).
TryFor_call ==
    /\ ~tf.called
    /\ tf' = [tf EXCEPT !.called = TRUE, !.passed = timeout_ms(tf.d)]
    /\ UNCHANGED <<handleVars, iterVars, interpVars, subVars, restVars>>

TryFor_return ==
    /\ tf.called
    /\ \E d \in Durations : tf' = [d |-> d, called |-> FALSE, passed |-> <<>>]
    /\ UNCHANGED <<handleVars, iterVars, interpVars, subVars, restVars>>

(***************************************************************************)
(* Iterating a model.  The native model is the authority on its counts; it *)
(* registers the declarations that an evaluation with model completion     *)
(* had to invent.                                                          *)
(***************************************************************************)
MaxCount == 2

Z3_model_get_num_consts == counts.nc
Z3_model_get_num_funcs == counts.nf

\* Z3_model_get_const_decl / Z3_model_get_func_decl: the declaration at an
\* index, null when the index is out of bounds.
Z3_model_get_const_decl(i) ==
    [kind |-> "const", i |-> i, null |-> i >= Z3_model_get_num_consts]
Z3_model_get_func_decl(i) ==
    [kind |-> "func", i |-> i, null |-> i >= Z3_model_get_num_funcs]

\* Model::len
Model_len == Z3_model_get_num_consts + Z3_model_get_num_funcs

NoIter == [active |-> FALSE, idx |-> 0, len |-> 0, out |-> <<>>, last |-> "none",
           nc0 |-> 0, nf0 |-> 0]

\* Model::iter / IntoIterator for &Model.  nc0 and nf0 remember the counts
\* that made up len; they are not fields of ModelIter.
Model_iter ==
    /\ iter' = [active |-> TRUE, idx |-> 0, len |-> Model_len, out |-> <<>>,
                last |-> "iter",
                nc0 |-> Z3_model_get_num_consts, nf0 |-> Z3_model_get_num_funcs]
    /\ UNCHANGED <<handleVars, tf, counts, interpVars, subVars, restVars>>

\* Not the code: the length asked of the model again on every call.
next_rereads_len(it) ==
    IF it.idx >= Model_len
    THEN [some |-> FALSE, item |-> Z3_model_get_const_decl(0), idx |-> it.idx]
    ELSE LET num_consts == Z3_model_get_num_consts
         IN IF it.idx < num_consts
            THEN [some |-> TRUE, item |-> Z3_model_get_const_decl(it.idx),
                  idx |-> it.idx + 1]
            ELSE [some |-> TRUE, item |-> Z3_model_get_func_decl(it.idx - num_consts),
                  idx |-> it.idx + 1]

\* ModelIter::next: [some, item, idx] as the code computes them.
next(it) ==
    IF it.idx >= it.len
    THEN [some |-> FALSE, item |-> Z3_model_get_const_decl(0), idx |-> it.idx]
    ELSE LET num_consts == Z3_model_get_num_consts
         IN IF it.idx < num_consts
            THEN [some |-> TRUE, item |-> Z3_model_get_const_decl(it.idx),
                  idx |-> it.idx + 1]
            ELSE [some |-> TRUE, item |-> Z3_model_get_func_decl(it.idx - num_consts),
                  idx |-> it.idx + 1]

\* ModelIter::size_hint.  The subtraction is one of u32: below zero it
\* panics or wraps around, depending on the build (underflow).
size_hint(it) ==
    LET len == it.len - it.idx
    IN [lower |-> len, upper |-> len, underflow |-> len < 0]

ModelIter_next ==
    /\ iter.active
    /\ LET r == next(iter)
       IN iter' = [iter EXCEPT !.idx = r.idx,
                               !.out = IF r.some THEN Append(@, r.item) ELSE @,
                               !.last = IF r.some THEN "Some" ELSE "None"]
    /\ UNCHANGED <<handleVars, tf, counts, interpVars, subVars, restVars>>

\* Model::eval: Z3_model_eval reports success (res) or not; with model
\* completion the engine may add to the model the declaration it had to
\* complete (grow).
Model_eval(model_completion, res, grow) ==
    /\ grow # "none" => model_completion
    /\ grow = "const" => counts.nc < MaxCount
    /\ grow = "func" => counts.nf < MaxCount
    /\ counts' = [nc |-> counts.nc + (IF grow = "const" THEN 1 ELSE 0),
                  nf |-> counts.nf + (IF grow = "func" THEN 1 ELSE 0)]
    /\ ret' = Ret("eval", NULL, NULL, IF res THEN "Some" ELSE "None", NoMsg, St)
    /\ UNCHANGED <<ctxStrong, userRc, heap, handles, slv, err, tf, iter,
                   interpVars, subVars, restVars>>

(***************************************************************************)
(* Looking up interpretations.  The native model's table gives, for each   *)
(* declaration, its arity, the sort kind of its range, its constant        *)
(* interpretation ci (null, a plain value, or an as-array value naming a   *)
(* declaration) and whether it has a function interpretation fi.           *)
(***************************************************************************)
MaxDecl == 2
MaxArity == 1
MaxDepth == 3

Decl == 1..MaxDecl
NullAst == [null |-> TRUE, as_array |-> FALSE, fd |-> 0]
PlainAst == [null |-> FALSE, as_array |-> FALSE, fd |-> 0]
AsArray(d) == [null |-> FALSE, as_array |-> TRUE, fd |-> d]

DeclShapes ==
    [arity : {0}, range : {"Array", "Int"},
     ci : {NullAst, PlainAst} \cup {AsArray(d) : d \in Decl}, fi : {FALSE}]
    \cup
    [arity : 1..MaxArity, range : {"Int"}, ci : {NullAst}, fi : BOOLEAN]

Z3_model_get_const_interp(d) == decls[d].ci
Z3_model_get_func_interp(d) == decls[d].fi
Z3_get_sort_kind_of_range(d) == decls[d].range
Z3_is_as_array(a) == a.as_array
Z3_get_as_array_func_decl(a) == a.fd

None == [some |-> FALSE, v |-> NullAst, of |-> 0]
SomeAst(a) == [some |-> TRUE, v |-> a, of |-> 0]
SomeInterp(d) == [some |-> TRUE, v |-> NullAst, of |-> d]

NoCall == [fn |-> "none", st |-> "idle", root |-> 0, path |-> <<>>, res |-> None,
           consulted |-> FALSE]

\* Not the code: the lookup without the arity test.
get_func_interp_as_const_any_arity(d) ==
    LET r == Z3_model_get_const_interp(d)
    IN [res |-> IF r.null THEN None ELSE SomeAst(r), consulted |-> TRUE]

\* Model::get_func_interp_as_const
get_func_interp_as_const(d) ==
    IF decls[d].arity = 0
    THEN LET r == Z3_model_get_const_interp(d)
         IN [res |-> IF r.null THEN None ELSE SomeAst(r), consulted |-> TRUE]
    ELSE [res |-> None, consulted |-> FALSE]

Model_get_func_interp_as_const(d) ==
    /\ call.st = "idle"
    /\ LET r == get_func_interp_as_const(d)
       IN call' = [fn |-> "get_func_interp_as_const", st |-> "done", root |-> d,
                   path |-> <<d>>, res |-> r.res, consulted |-> r.consulted]
    /\ UNCHANGED <<handleVars, tf, iterVars, decls, subVars, restVars>>

\* Not the code: as-array values followed whatever the range's sort.
get_func_interp_no_sort_check(d) ==
    IF decls[d].arity = 0
    THEN LET r == Z3_model_get_const_interp(d)
         IN IF r.null THEN [rec |-> FALSE, res |-> None, fd |-> 0]
            ELSE IF Z3_is_as_array(r)
                 THEN [rec |-> TRUE, res |-> None, fd |-> Z3_get_as_array_func_decl(r)]
                 ELSE [rec |-> FALSE, res |-> None, fd |-> 0]
    ELSE [rec |-> FALSE, fd |-> 0,
          res |-> IF Z3_model_get_func_interp(d) THEN SomeInterp(d) ELSE None]

\* Not the code: a declaration already on the call stack is not entered
\* again; the call gives up with None.
get_func_interp_cycle_guard(d) ==
    IF decls[d].arity = 0
    THEN LET r == Z3_model_get_const_interp(d)
             fd == Z3_get_as_array_func_decl(r)
         IN IF r.null THEN [rec |-> FALSE, res |-> None, fd |-> 0]
            ELSE IF Z3_get_sort_kind_of_range(d) = "Array" /\ Z3_is_as_array(r)
                    /\ \A i \in 1..Len(call.path) : call.path[i] # fd
                 THEN [rec |-> TRUE, res |-> None, fd |-> fd]
                 ELSE [rec |-> FALSE, res |-> None, fd |-> 0]
    ELSE [rec |-> FALSE, fd |-> 0,
          res |-> IF Z3_model_get_func_interp(d) THEN SomeInterp(d) ELSE None]

\* One activation of Model::get_func_interp on declaration d: it returns res,
\* or (rec) returns whatever the recursive call on fd returns.
get_func_interp(d) ==
    IF decls[d].arity = 0
    THEN LET r == Z3_model_get_const_interp(d)
         IN IF r.null THEN [rec |-> FALSE, res |-> None, fd |-> 0]
            ELSE IF Z3_get_sort_kind_of_range(d) = "Array"
                 THEN IF Z3_is_as_array(r)
                      THEN [rec |-> TRUE, res |-> None,
                            fd |-> Z3_get_as_array_func_decl(r)]
                      ELSE [rec |-> FALSE, res |-> None, fd |-> 0]
                 ELSE [rec |-> FALSE, res |-> None, fd |-> 0]
    ELSE [rec |-> FALSE, fd |-> 0,
          res |-> IF Z3_model_get_func_interp(d) THEN SomeInterp(d) ELSE None]

\* The caller's call: the first activation is entered.
Model_get_func_interp(d) ==
    /\ call.st = "idle"
    /\ call' = [fn |-> "get_func_interp", st |-> "run", root |-> d, path |-> <<d>>,
                res |-> None, consulted |-> FALSE]
    /\ UNCHANGED <<handleVars, tf, iterVars, decls, subVars, restVars>>

\* The innermost activation runs: it returns, and its result is returned
\* unchanged by every activation below it, or it calls itself on fd.
get_func_interp_step ==
    /\ call.st = "run"
    /\ LET r == get_func_interp(call.path[Len(call.path)])
       IN IF r.rec
          THEN /\ Len(call.path) < MaxDepth
               /\ call' = [call EXCEPT !.path = Append(@, r.fd)]
          ELSE call' = [call EXCEPT !.st = "done", !.res = r.res]
    /\ UNCHANGED <<handleVars, tf, iterVars, decls, subVars, restVars>>

Call_return ==
    /\ call.st = "done"
    /\ call' = NoCall
    /\ UNCHANGED <<handleVars, tf, iterVars, decls, subVars, restVars>>

(***************************************************************************)
(* The subgoals of an ApplyResult.  The native apply result owns one       *)
(* reference to each of its subgoals, which it gives up when it is freed;  *)
(* subgoal i is the native goal i + 1.                                     *)
(***************************************************************************)
MaxSubgoals == 2

GoalObj == 1..MaxSubgoals
FreeGoal == [rc |-> 0, held |-> FALSE, ctx |-> 0]
NoSub == [state |-> "none", ar |-> Handle("apply_result", 0, NULL), num |-> 0,
          i |-> 0, exhausted |-> FALSE, uaf |-> FALSE]

GoalLive(gh, g) == g # NULL /\ gh[g].rc > 0

Z3_apply_result_get_num_subgoals(gh) == Cardinality({g \in GoalObj : gh[g].held})

\* Z3_apply_result_get_subgoal: the outcomes of the call.  On an apply
\* result that has been freed the read is of freed memory.
Z3_apply_result_get_subgoal(hp, p, i) ==
    IF IsLive(hp, p) THEN {i + 1} ELSE GoalObj \cup {NULL}

Z3_goal_inc_ref(gh, g) ==
    IF GoalLive(gh, g) THEN [gh EXCEPT ![g].rc = @ + 1] ELSE gh

Z3_goal_dec_ref(gh, g) ==
    IF GoalLive(gh, g)
    THEN [gh EXCEPT ![g] = IF @.rc <= 1 THEN FreeGoal ELSE [@ EXCEPT !.rc = @ - 1]]
    ELSE gh

\* What the engine does to the goals when an operation changed the heap from
\* hp to hp2: an apply result that was freed releases its subgoals, and a
\* context that was destroyed takes all its goals with it.
EngineAfter(gh, hp, hp2, strong2) ==
    [g \in GoalObj |->
        IF gh[g].ctx # 0 /\ strong2[gh[g].ctx] = 0 THEN FreeGoal
        ELSE IF /\ gh[g].held
                /\ \E p \in Obj : hp[p].kind = "apply_result" /\ hp2[p].kind = "free"
             THEN IF gh[g].rc <= 1 THEN FreeGoal
                  ELSE [gh[g] EXCEPT !.rc = @ - 1, !.held = FALSE]
             ELSE gh[g]]

\* Not the code: self dropped when list_subgoals returns.
list_subgoals_drops_self(st, h) == ApplyResult_drop(st, h)

\* ApplyResult::list_subgoals after reading the number of subgoals: self is
\* moved into the closure of the iterator returned; nothing is dropped.
list_subgoals(st, h) == [st EXCEPT !.handles = @ (-) One(h)]

ApplyResult_list_subgoals(h) ==
    /\ h \in Live("apply_result")
    /\ sub.state = "none"
    /\ LET num_subgoals == Z3_apply_result_get_num_subgoals(gheap)
           st == list_subgoals(St, h)
       IN /\ Commit(st)
          /\ ret' = Ret("list_subgoals", h.ctx, h.ptr, "Iterator", NoMsg, st)
          /\ sub' = [NoSub EXCEPT !.state = "iter", !.ar = h, !.num = num_subgoals]
          /\ gheap' = EngineAfter(gheap, heap, st.heap, st.strong)
    /\ UNCHANGED <<slv, goals, tf, iterVars, interpVars, restVars>>

\* Goal::wrap: the handle takes its own reference to the goal.
Goal_wrap(gh, g) == Z3_goal_inc_ref(gh, g)

\* Iterator::next on the iterator returned: the closure runs for the next
\* index of 0..num_subgoals, or the range is exhausted.
Subgoals_next ==
    /\ sub.state = "iter"
    /\ IF sub.i < sub.num
       THEN \E g \in Z3_apply_result_get_subgoal(heap, sub.ar.ptr, sub.i) :
               LET st == Rc_clone(St, sub.ar.ctx)
               IN /\ Commit(st)
                  /\ ret' = Ret("subgoals_next", sub.ar.ctx, g, "Some", NoMsg, st)
                  /\ gheap' = Goal_wrap(gheap, g)
                  /\ goals' = Append(goals, [ptr |-> g, live |-> TRUE])
                  /\ sub' = [sub EXCEPT !.i = @ + 1,
                                        !.uaf = @ \/ ~IsLive(heap, sub.ar.ptr)
                                                  \/ ~GoalLive(gheap, g)]
       ELSE /\ sub' = [sub EXCEPT !.exhausted = TRUE]
            /\ ret' = Ret("subgoals_next", sub.ar.ctx, NULL, "None", NoMsg, St)
            /\ UNCHANGED <<ctxStrong, userRc, heap, handles, err, gheap, goals>>
    /\ UNCHANGED <<slv, tf, iterVars, interpVars, restVars>>

\* The iterator is dropped, and with it the ApplyResult its closure owns.
Subgoals_drop ==
    /\ sub.state = "iter"
    /\ LET st == ApplyResult_drop(St, sub.ar)
       IN /\ Commit(st)
          /\ ret' = Ret("subgoals_drop", sub.ar.ctx, sub.ar.ptr, "Unit", NoMsg, st)
          /\ gheap' = EngineAfter(gheap, heap, st.heap, st.strong)
          /\ sub' = [sub EXCEPT !.state = "spent",
                                !.uaf = @ \/ ~IsLive(heap, sub.ar.ptr)]
    /\ UNCHANGED <<slv, goals, tf, iterVars, interpVars, restVars>>

\* Drop for Goal, on the k-th Goal yielded.
Goal_drop(k) ==
    /\ k \in 1..Len(goals)
    /\ goals[k].live
    /\ LET st == Rc_drop(St, sub.ar.ctx)
       IN /\ Commit(st)
          /\ ret' = Ret("drop_goal", sub.ar.ctx, goals[k].ptr, "Unit", NoMsg, st)
          /\ gheap' = EngineAfter(Z3_goal_dec_ref(gheap, goals[k].ptr), heap,
                                  st.heap, st.strong)
    /\ goals' = [goals EXCEPT ![k].live = FALSE]
    /\ UNCHANGED <<slv, sub, tf, iterVars, interpVars, restVars>>

\* An ApplyResult that was never listed is dropped.
Subgoals_Drop_ApplyResult(h) ==
    /\ h \in Live("apply_result")
    /\ Drop_ApplyResult(h)
    /\ gheap' = EngineAfter(gheap, heap, heap', ctxStrong')
    /\ UNCHANGED <<sub, goals, tf, iterVars, interpVars, restVars>>

Subgoals_UserDropCtx(c) ==
    /\ UserDropCtx(c)
    /\ gheap' = EngineAfter(gheap, heap, heap', ctxStrong')
    /\ UNCHANGED <<sub, goals, tf, iterVars, interpVars, restVars>>

(***************************************************************************)
(* Evaluation and constant lookup.  present is the set of constants the    *)
(* native model interprets; an expression is a constant or something else. *)
(***************************************************************************)
MaxConst == 3

ConstDecl == 1..MaxConst
Exprs == [kind : {"const"}, d : ConstDecl] \cup {[kind |-> "other", d |-> 0]}

NoEv == [op |-> "none", e |-> [kind |-> "other", d |-> 0], mc |-> FALSE,
         native |-> FALSE, res |-> "None", before |-> {}]

\* ast.safe_decl(): the declaration of an application, an error otherwise.
safe_decl(e) == IF e.kind = "const" THEN [ok |-> TRUE, d |-> e.d]
                ELSE [ok |-> FALSE, d |-> 0]

\* Model::get_const_interp
get_const_interp(e) ==
    LET func == safe_decl(e)
    IN IF ~func.ok THEN "None"
       ELSE IF func.d \notin present THEN "None" ELSE "Some"

Model_get_const_interp(e) ==
    /\ ev' = [NoEv EXCEPT !.op = "get_const_interp", !.e = e,
                          !.native = safe_decl(e).ok /\ safe_decl(e).d \in present,
                          !.res = get_const_interp(e), !.before = present]
    /\ UNCHANGED <<handleVars, tf, iterVars, interpVars, subVars, present, bn, fm, stratVars>>

\* Z3_model_eval: the outcomes of the call, [ok, model].  A constant the
\* model interprets evaluates to its value; one it does not interpret is
\* left as it is, or, with model completion, is given some value of its
\* sort, which the engine registers in the model.  Another expression is
\* evaluated or the evaluation fails.
Z3_model_eval(e, model_completion) ==
    IF e.kind = "const"
    THEN IF e.d \in present \/ ~model_completion
         THEN {[ok |-> TRUE, model |-> present]}
         ELSE {[ok |-> TRUE, model |-> present \cup {e.d}]}
    ELSE {[ok |-> b, model |-> present] : b \in BOOLEAN}

\* Model::eval after the native call returned out.
eval(out) == IF out.ok THEN "Some" ELSE "None"

Model_eval_expr(e, model_completion) ==
    \E out \in Z3_model_eval(e, model_completion) :
        /\ ev' = [op |-> "eval", e |-> e, mc |-> model_completion,
                  native |-> out.ok, res |-> eval(out), before |-> present]
        /\ present' = out.model
        /\ counts' = [counts EXCEPT !.nc = Cardinality(out.model)]
        /\ UNCHANGED <<handleVars, tf, iter, interpVars, subVars, bn, fm, stratVars>>

(***************************************************************************)
(* A tactic made by name and then applied.  Tactic::new checks nothing, so *)
(* a null pointer from Z3_mk_tactic goes to Z3_tactic_inc_ref, later to    *)
(* Z3_tactic_apply and to Z3_tactic_dec_ref, which dereference it: the     *)
(* process may die there, or the call may come back.                       *)
(***************************************************************************)
NoBn == [phase |-> "none", name |-> "catalog"]
ByNameRest == UNCHANGED <<tf, iterVars, interpVars, subVars, evalVars, fm, stratVars>>

\* The native calls that take a tactic dereference it.
DerefMayCrash(p) == p = NULL

Crash(name) ==
    /\ bn' = [phase |-> "crashed", name |-> name]
    /\ UNCHANGED handleVars

ByName_new(c, name, moved) ==
    /\ bn.phase = "none"
    /\ \/ /\ Tactic_new(c, name, moved)
          /\ bn' = [phase |-> IF name = "embedded_nul" THEN "panicked" ELSE "built",
                    name |-> name]
       \/ /\ Room
          /\ userRc[c] >= 1
          /\ name # "embedded_nul"
          /\ \E out \in Z3_mk_tactic(heap, c, name) : DerefMayCrash(out.ptr)
          /\ Crash(name)
    /\ ByNameRest

\* Z3_tactic_apply on the tactic's pointer: on null, if the call comes back
\* at all it comes back with null and an error.
ByName_apply(t, params) ==
    /\ bn.phase \in {"built", "applied"}
    /\ t \in Live("tactic")
    /\ IF DerefMayCrash(t.ptr)
       THEN \/ /\ Room
               /\ \E e \in ErrOutcomes : apply(t, [heap |-> heap, ptr |-> NULL, slot |-> e])
               /\ bn' = [bn EXCEPT !.phase = "applied"]
               /\ UNCHANGED slv
            \/ Crash(bn.name)
       ELSE /\ Tactic_apply(t, params)
            /\ bn' = [bn EXCEPT !.phase = "applied"]
    /\ ByNameRest

ByName_Drop_Tactic(h) ==
    /\ bn.phase \in {"built", "applied"}
    /\ h \in Live("tactic")
    /\ \/ /\ Drop_Tactic(h)
          /\ bn' = [bn EXCEPT !.phase = "none"]
       \/ /\ DerefMayCrash(h.ptr)
          /\ Crash(bn.name)
    /\ ByNameRest

ByName_Drop_ApplyResult(h) ==
    /\ h \in Live("apply_result")
    /\ bn.phase # "crashed"
    /\ Drop_ApplyResult(h)
    /\ UNCHANGED bn
    /\ ByNameRest

\* The panic was caught, or the program runs again.
ByName_again ==
    /\ bn.phase = "panicked"
    /\ bn' = [bn EXCEPT !.phase = "none"]
    /\ UNCHANGED handleVars
    /\ ByNameRest

(***************************************************************************)
(* Rendering a Model or a Tactic to text.  The engine answers with a null  *)
(* pointer or with the address of a NUL-terminated string.                 *)
(***************************************************************************)
NullStr == [null |-> TRUE, mem |-> <<>>]
Str(mem) == [null |-> FALSE, mem |-> mem]

NativeStrings ==
    {NullStr} \cup
    {Str(m) : m \in {<<0>>, <<65, 66, 0>>, <<111, 107, 0>>, <<195, 169, 226, 130, 172, 0>>,
                     <<240, 159, 152, 128, 0>>, <<65, 0, 255>>, <<66, 255, 0>>,
                     <<195, 0, 169>>, <<192, 128, 0>>, <<237, 160, 128, 0>>,
                     <<226, 130, 0>>, <<244, 144, 128, 128, 0>>,
                     <<224, 128, 128, 0>>, <<128, 0>>}}

Z3_model_to_string == NativeStrings
Z3_tactic_get_help == NativeStrings

\* What the formatter's buffer may hold when fmt is entered.
Buffers == {<<>>, <<109, 61>>}

FmtErr(f) == [res |-> "Err", out |-> f]

\* write!(f, "{s}") into a String
write(f, s) == [res |-> "Ok", out |-> f \o s]

Display_fmt_unchecked(p, f) ==
    LET s == to_str(CStr_from_ptr(p.mem))
    IN IF s.ok THEN write(f, s.text) ELSE FmtErr(f)

\* Display for Model, after Z3_model_to_string returned p; the formatter
\* writes into a String.
Model_Display_fmt(p, f) ==
    IF p.null THEN FmtErr(f)
    ELSE LET s == to_str(CStr_from_ptr(p.mem))
         IN IF s.ok THEN write(f, s.text) ELSE FmtErr(f)

\* Debug for Model
Model_Debug_fmt(p, f) == Model_Display_fmt(p, f)

\* Display for Tactic, after Z3_tactic_get_help returned p.
Tactic_Display_fmt(p, f) ==
    IF p.null THEN FmtErr(f)
    ELSE LET s == to_str(CStr_from_ptr(p.mem))
         IN IF s.ok THEN write(f, s.text) ELSE FmtErr(f)

\* Debug for Tactic
Tactic_Debug_fmt(p, f) == Tactic_Display_fmt(p, f)

NoFm == [who |-> "none", how |-> "Display", p |-> NullStr, f |-> <<>>,
         res |-> "Ok", out |-> <<>>]
FmtRest == UNCHANGED <<handleVars, tf, iterVars, interpVars, subVars, evalVars, bn, stratVars>>

Model_fmt(how) ==
    /\ \E p \in Z3_model_to_string, f \in Buffers :
          LET r == IF how = "Display" THEN Model_Display_fmt(p, f) ELSE Model_Debug_fmt(p, f)
          IN fm' = [who |-> "model", how |-> how, p |-> p, f |-> f, res |-> r.res,
                    out |-> r.out]
    /\ FmtRest

Tactic_fmt(how) ==
    /\ \E p \in Z3_tactic_get_help, f \in Buffers :
          LET r == IF how = "Display" THEN Tactic_Display_fmt(p, f) ELSE Tactic_Debug_fmt(p, f)
          IN fm' = [who |-> "tactic", how |-> how, p |-> p, f |-> f, res |-> r.res,
                    out |-> r.out]
    /\ FmtRest

(***************************************************************************)
(* What composed tactics do.  The engine keeps one object per tactic; a    *)
(* combinator's object refers to the objects it was built from.  A goal is *)
(* a number; applying a tactic to a goal fails or yields a sequence of     *)
(* goals.                                                                  *)
(***************************************************************************)
MaxNode == 3
MaxRepeat == 1

Node == 1..MaxNode
GoalVal == 0..3
Listed == {"split", "simplify", "strict"}

FreeNode == [op |-> "free", a |-> 0, b |-> 0, max |-> 0]
Failed == [ok |-> FALSE, goals |-> <<>>]
Subgoals(gs) == [ok |-> TRUE, goals |-> gs]

\* The tactics of the catalog: one that splits, one that rewrites until
\* nothing is left to rewrite, one that rejects some goals.
Denote(name, g) ==
    CASE name = "split" -> IF g >= 2 THEN Subgoals(<<g - 2, g - 1>>) ELSE Subgoals(<<g>>)
      [] name = "simplify" -> IF g >= 1 THEN Subgoals(<<g - 1>>) ELSE Subgoals(<<g>>)
      [] name = "strict" -> IF g = 1 THEN Failed ELSE Subgoals(<<g>>)

Z3_mk_tactic_listed(name) == [FreeNode EXCEPT !.op = name]
Z3_tactic_skip == [FreeNode EXCEPT !.op = "skip"]
Z3_tactic_fail == [FreeNode EXCEPT !.op = "fail"]
Z3_tactic_repeat(t, max) == [FreeNode EXCEPT !.op = "repeat", !.a = t, !.max = max]
Z3_tactic_and_then(t1, t2) == [FreeNode EXCEPT !.op = "and_then", !.a = t1, !.b = t2]

RECURSIVE Run(_, _, _)
RECURSIVE Each(_, _, _)
RECURSIVE RepeatFrom(_, _, _, _)
RECURSIVE RepeatEach(_, _, _, _)

\* The engine applying tactic object p to goal g.
Run(tn, p, g) ==
    LET n == tn[p]
    IN CASE n.op = "skip" -> Subgoals(<<g>>)
         [] n.op = "fail" -> Failed
         [] n.op \in Listed -> Denote(n.op, g)
         [] n.op = "and_then" ->
              LET r1 == Run(tn, n.a, g)
              IN IF r1.ok THEN Each(tn, n.b, r1.goals) ELSE Failed
         [] n.op = "repeat" -> RepeatFrom(tn, p, 0, g)

\* p applied to every goal of gs, the results one after the other.
Each(tn, p, gs) ==
    IF gs = <<>> THEN Subgoals(<<>>)
    ELSE LET r == Run(tn, p, Head(gs))
             rest == Each(tn, p, Tail(gs))
         IN IF r.ok /\ rest.ok THEN Subgoals(r.goals \o rest.goals) ELSE Failed

\* repeat: past the cap the goal is returned as it is; otherwise the tactic
\* is applied, and applied again to what it produced unless it left the goal
\* as it was.
RepeatFrom(tn, p, depth, g) ==
    IF depth > tn[p].max THEN Subgoals(<<g>>)
    ELSE LET r1 == Run(tn, tn[p].a, g)
         IN IF ~r1.ok THEN Failed
            ELSE IF r1.goals = <<g>> THEN r1
            ELSE RepeatEach(tn, p, depth + 1, r1.goals)

RepeatEach(tn, p, depth, gs) ==
    IF gs = <<>> THEN Subgoals(<<>>)
    ELSE LET r == RepeatFrom(tn, p, depth, Head(gs))
             rest == RepeatEach(tn, p, depth, Tail(gs))
         IN IF r.ok /\ rest.ok THEN Subgoals(r.goals \o rest.goals) ELSE Failed

\* Z3_tactic_apply: null when the tactic failed, else the apply result.
Z3_tactic_apply_to(tn, p, g) ==
    LET r == Run(tn, p, g)
    IN [null |-> ~r.ok, subgoals |-> r.goals]

\* The binding.
NoStrat == [by |-> "none", self |-> 0, arg |-> 0, max |-> 0]
NoApp == [state |-> "none", t |-> 0, g |-> 0, val |-> "None", ar |-> <<>>,
          listed |-> <<>>]
StratLive == {t \in Node : strat[t].by # "none"}
StratRest == UNCHANGED <<handleVars, tf, iterVars, interpVars, subVars, evalVars, bn, fm>>

\* Tactic::wrap of a new native object, made by the call `by`.
Strategy_wrap(node, by) ==
    /\ \E p \in Node :
          /\ tnode[p] = FreeNode
          /\ \A q \in Node : q < p => tnode[q] # FreeNode
          /\ tnode' = [tnode EXCEPT ![p] = node]
          /\ strat' = [strat EXCEPT ![p] = by]
    /\ UNCHANGED app
    /\ StratRest

Strategy_new(name) ==
    Strategy_wrap(Z3_mk_tactic_listed(name), [NoStrat EXCEPT !.by = name])

Strategy_create_skip ==
    Strategy_wrap(Z3_tactic_skip, [NoStrat EXCEPT !.by = "create_skip"])

Strategy_create_fail ==
    Strategy_wrap(Z3_tactic_fail, [NoStrat EXCEPT !.by = "create_fail"])

Strategy_repeat(t, max) ==
    /\ t \in StratLive
    /\ Strategy_wrap(Z3_tactic_repeat(t, max),
                     [NoStrat EXCEPT !.by = "repeat", !.arg = t, !.max = max])

and_then_swapped(self, then_tactic) == Z3_tactic_and_then(then_tactic, self)

\* The native call of Tactic::and_then.
and_then(self, then_tactic) == Z3_tactic_and_then(self, then_tactic)

Strategy_and_then(self, then_tactic) ==
    /\ self \in StratLive
    /\ then_tactic \in StratLive
    /\ Strategy_wrap(and_then(self, then_tactic),
                     [NoStrat EXCEPT !.by = "and_then", !.self = self, !.arg = then_tactic])

apply_result_unchecked(z3_apply_result) == [val |-> "Ok", ar |-> z3_apply_result.subgoals]

\* The two arms of Tactic::apply.
apply_result(z3_apply_result) ==
    IF z3_apply_result.null
    THEN [val |-> "Err", ar |-> <<>>]
    ELSE [val |-> "Ok", ar |-> z3_apply_result.subgoals]

Strategy_apply(t, g) ==
    /\ t \in StratLive
    /\ LET r == apply_result(Z3_tactic_apply_to(tnode, t, g))
       IN app' = [state |-> "applied", t |-> t, g |-> g, val |-> r.val, ar |-> r.ar,
                  listed |-> <<>>]
    /\ UNCHANGED <<tnode, strat>>
    /\ StratRest

\* ApplyResult::list_subgoals, collected.
Strategy_list_subgoals ==
    /\ app.state = "applied"
    /\ app.val = "Ok"
    /\ LET num_subgoals == Len(app.ar)
       IN app' = [app EXCEPT !.state = "listed",
                             !.listed = [i \in 1..num_subgoals |-> app.ar[i]]]
    /\ UNCHANGED <<tnode, strat>>
    /\ StratRest

(***************************************************************************)
(* Specifications.                                                         *)
(***************************************************************************)
IterIdle == counts = [nc |-> 0, nf |-> 0] /\ iter = NoIter
InterpIdle ==
    /\ decls = [d \in Decl |-> [arity |-> 0, range |-> "Int", ci |-> NullAst,
                                fi |-> FALSE]]
    /\ call = NoCall

SubIdle ==
    /\ gheap = [g \in GoalObj |-> FreeGoal]
    /\ sub = NoSub
    /\ goals = <<>>

StratIdle == tnode = [p \in Node |-> FreeNode] /\ strat = [p \in Node |-> NoStrat] /\ app = NoApp
EvalIdle == present = {} /\ ev = NoEv /\ bn = NoBn /\ fm = NoFm /\ StratIdle

Init ==
    /\ HandleInit
    /\ tf = TfIdle
    /\ IterIdle
    /\ InterpIdle
    /\ SubIdle
    /\ EvalIdle

\* What the handle operations leave alone.
Elsewhere == UNCHANGED <<tf, iterVars, interpVars, subVars, restVars>>

Next ==
    \/ \E c \in Ctx : UserDropCtx(c) /\ Elsewhere
    \/ \E s \in Sources, c \in Ctx : Solver_new(s, c) /\ Elsewhere
    \/ \E r \in {"sat", "unsat", "unknown"} : Solver_check(r) /\ Elsewhere
    \/ Solver_drop /\ Elsewhere
    \/ Model_of_solver /\ Elsewhere
    \/ Model_of_optimize /\ Elsewhere
    \/ \E h \in Live("model"), c \in Ctx, moved \in BOOLEAN : Model_translate(h, c, moved) /\ Elsewhere
    \/ \E c \in Ctx, n \in Names, moved \in BOOLEAN : Tactic_new(c, n, moved) /\ Elsewhere
    \/ \E c \in Ctx, moved \in BOOLEAN : Tactic_create_skip(c, moved) /\ Elsewhere
    \/ \E c \in Ctx, moved \in BOOLEAN : Tactic_create_fail(c, moved) /\ Elsewhere
    \/ \E c \in Ctx, t \in Live("tactic"), moved \in BOOLEAN : Tactic_repeat(c, t, moved) /\ Elsewhere
    \/ \E c \in Ctx, t1, t2 \in Live("tactic"), moved \in BOOLEAN :
          Tactic_cond(c, t1, t2, moved) /\ Elsewhere
    \/ \E c \in Ctx, moved \in BOOLEAN : Tactic_fail_if(c, moved) /\ Elsewhere
    \/ \E t \in Live("tactic") : Tactic_try_for(t) /\ Elsewhere
    \/ \E t, t2 \in Live("tactic") : Tactic_and_then(t, t2) /\ Elsewhere
    \/ \E t, t2 \in Live("tactic") : Tactic_or_else(t, t2) /\ Elsewhere
    \/ \E t, t2 \in Live("tactic") : Tactic_probe_or_else(t, t2) /\ Elsewhere
    \/ \E t \in Live("tactic") : Tactic_when(t) /\ Elsewhere
    \/ \E t \in Live("tactic") : Tactic_solver(t) /\ Elsewhere
    \/ \E t \in Live("tactic"), params \in {"None", "Some"} : Tactic_apply(t, params) /\ Elsewhere
    \/ \E h \in Live("model") : Drop_Model(h) /\ Elsewhere
    \/ \E h \in Live("tactic") : Drop_Tactic(h) /\ Elsewhere
    \/ \E h \in Live("apply_result") : Drop_ApplyResult(h) /\ Elsewhere

Spec == Init /\ [][Next]_vars

InitTryFor ==
    /\ HandleInit
    /\ \E d \in Durations : tf = [d |-> d, called |-> FALSE, passed |-> <<>>]
    /\ IterIdle
    /\ InterpIdle
    /\ SubIdle
    /\ EvalIdle

NextTryFor == TryFor_call \/ TryFor_return

SpecTryFor == InitTryFor /\ [][NextTryFor]_vars

InitIter ==
    /\ HandleInit
    /\ tf = TfIdle
    /\ counts \in [nc : 0..MaxCount, nf : 0..MaxCount]
    /\ iter = NoIter
    /\ InterpIdle
    /\ SubIdle
    /\ EvalIdle

NextIter ==
    \/ Model_iter
    \/ ModelIter_next
    \/ \E mc \in BOOLEAN, res \in BOOLEAN, grow \in {"none", "const", "func"} :
          Model_eval(mc, res, grow)

SpecIter == InitIter /\ [][NextIter]_vars

InitInterp ==
    /\ HandleInit
    /\ tf = TfIdle
    /\ IterIdle
    /\ decls \in [Decl -> DeclShapes]
    /\ call = NoCall
    /\ SubIdle
    /\ EvalIdle

NextInterp ==
    \/ \E d \in Decl : Model_get_func_interp_as_const(d)
    \/ \E d \in Decl : Model_get_func_interp(d)
    \/ get_func_interp_step
    \/ Call_return

SpecInterp == InitInterp /\ [][NextInterp]_vars

\* A call that has been entered runs on: the activation on top of the stack
\* is executed.
SpecInterpFair == SpecInterp /\ WF_vars(get_func_interp_step)

\* A tactic was applied with success in context c and the result has n
\* subgoals; the tactic and the goal it was applied to are gone.
InitSubgoals ==
    /\ \E c \in Ctx :
          /\ ctxStrong = [d \in Ctx |-> IF d = c THEN 2 ELSE 1]
          /\ heap = [o \in Obj |-> IF o = 1
                                   THEN [kind |-> "apply_result", ctx |-> c,
                                         rc |-> 1, eng |-> 0]
                                   ELSE Free]
          /\ handles = One(Handle("apply_result", c, 1))
          /\ ret = [op |-> "apply", ctx |-> c, native |-> 1, val |-> "Ok",
                    msg |-> NoMsg, incNull |-> FALSE, deadDec |-> FALSE]
    /\ userRc = [c \in Ctx |-> 1]
    /\ slv = NoSolver
    /\ err = [c \in Ctx |-> OkSlot]
    /\ \E n \in 0..MaxSubgoals :
          gheap = [g \in GoalObj |->
                     IF g <= n
                     THEN [rc |-> 1, held |-> TRUE, ctx |-> heap[1].ctx]
                     ELSE FreeGoal]
    /\ sub = NoSub
    /\ goals = <<>>
    /\ tf = TfIdle
    /\ IterIdle
    /\ InterpIdle
    /\ EvalIdle

NextSubgoals ==
    \/ \E h \in Live("apply_result") : ApplyResult_list_subgoals(h)
    \/ Subgoals_next
    \/ Subgoals_drop
    \/ \E k \in 1..MaxSubgoals : Goal_drop(k)
    \/ \E h \in Live("apply_result") : Subgoals_Drop_ApplyResult(h)
    \/ \E c \in Ctx : Subgoals_UserDropCtx(c)

SpecSubgoals == InitSubgoals /\ [][NextSubgoals]_vars

InitEval ==
    /\ HandleInit
    /\ tf = TfIdle
    /\ present \in SUBSET ConstDecl
    /\ counts = [nc |-> Cardinality(present), nf |-> 0]
    /\ iter = NoIter
    /\ InterpIdle
    /\ SubIdle
    /\ ev = NoEv
    /\ bn = NoBn
    /\ fm = NoFm
    /\ StratIdle

NextEval ==
    \/ \E e \in Exprs : Model_get_const_interp(e)
    \/ \E e \in Exprs, mc \in BOOLEAN : Model_eval_expr(e, mc)

SpecEval == InitEval /\ [][NextEval]_vars

NextByName ==
    \/ \E c \in Ctx, n \in Names, moved \in BOOLEAN : ByName_new(c, n, moved)
    \/ \E t \in Live("tactic"), params \in {"None", "Some"} : ByName_apply(t, params)
    \/ \E h \in Live("tactic") : ByName_Drop_Tactic(h)
    \/ \E h \in Live("apply_result") : ByName_Drop_ApplyResult(h)
    \/ ByName_again

SpecByName == Init /\ [][NextByName]_vars

NextFmt ==
    \/ \E how \in {"Display", "Debug"} : Model_fmt(how)
    \/ \E how \in {"Display", "Debug"} : Tactic_fmt(how)

SpecFmt == Init /\ [][NextFmt]_vars

NextStrategy ==
    \/ \E name \in Listed : Strategy_new(name)
    \/ Strategy_create_skip
    \/ Strategy_create_fail
    \/ \E t \in Node, max \in 0..MaxRepeat : Strategy_repeat(t, max)
    \/ \E t1, t2 \in Node : Strategy_and_then(t1, t2)
    \/ \E t \in Node, g \in GoalVal : Strategy_apply(t, g)
    \/ Strategy_list_subgoals

SpecStrategy == Init /\ [][NextStrategy]_vars

(***************************************************************************)
(* Properties of the handle life cycle.                                    *)
(***************************************************************************)
SolverHolds(c) == IF slv.kind # "none" /\ slv.ctx = c THEN 1 ELSE 0

\* C1: no handle ever wraps a null native pointer: when a native call
\* returns null no handle is built and no inc_ref is issued on null, so
\* every live handle holds a non-null pointer.
C1_NoNullHandle ==
    /\ \A h \in BagToSet(handles) : h.ptr # NULL
    /\ ~ret.incNull

\* C2: reference counts balance: the engine's count of every object is the
\* engine's own references plus one per live handle on it (one inc_ref per
\* creation, one dec_ref per drop), and an object with a live handle is
\* never released.
C2_RefCountsBalance ==
    /\ \A o \in Obj : IsLive(heap, o) =>
           heap[o].rc = heap[o].eng + HandlesOn(handles, o)
    /\ \A h \in BagToSet(handles) : h.ptr # NULL =>
           IsLive(heap, h.ptr) /\ heap[h.ptr].ctx = h.ctx

\* Two handles were made on the model the solver holds and one of them has
\* been dropped: the object lives on with the other.
C2_Witness ==
    /\ ret.op = "drop_model"
    /\ IsLive(heap, ret.native)
    /\ heap[ret.native].eng = 1
    /\ HandlesOn(handles, ret.native) = 1

\* C3: a context outlives every handle that references it: each handle
\* holds its own Rc<Context> until after its dec_ref, so every dec_ref runs
\* in a live context and a context with a live handle is alive.
C3_ContextOutlivesHandles ==
    /\ ~ret.deadDec
    /\ \A c \in Ctx :
           ctxStrong[c] = userRc[c] + HandlesIn(handles, c) + SolverHolds(c)
    /\ \A h \in BagToSet(handles) : ctxStrong[h.ctx] >= 1

\* The caller had given up its own reference; dropping the last tactic
\* destroyed the context, after the dec_ref.
C3_Witness ==
    /\ ret.op = "drop_tactic"
    /\ ret.native # NULL
    /\ ctxStrong[ret.ctx] = 0

\* C4: Model::of_solver and Model::of_optimize return None exactly when the
\* native get-model call returned null, and then create no handle and
\* change no reference count; after an Unsat check the result is None.
C4_AbsentIffNoModel ==
    /\ [](ret.op \in {"of_solver", "of_optimize"} =>
            /\ ret.val = "None" <=> ret.native = NULL
            /\ ret.val = "Some" <=> ret.native # NULL
            /\ slv.res \in {"unsat", "new"} => ret.val = "None")
    /\ [][(ret'.op \in {"of_solver", "of_optimize"} /\ ret'.val = "None") =>
            /\ handles' = handles
            /\ heap' = heap
            /\ ctxStrong' = ctxStrong]_vars

\* The solver answered Unsat and was asked for its model.
C4_Witness ==
    /\ ret.op = "of_solver"
    /\ ret.val = "None"
    /\ slv.res = "unsat"

(***************************************************************************)
(* UTF-8 encoding of a text, written independently of to_str, to say what  *)
(* the decoded message must be.                                            *)
(***************************************************************************)
Utf8EncodeCp(cp) ==
    IF cp < 128 THEN <<cp>>
    ELSE IF cp < 2048 THEN <<192 + (cp \div 64), 128 + (cp % 64)>>
    ELSE IF cp < 65536
         THEN <<224 + (cp \div 4096), 128 + ((cp \div 64) % 64), 128 + (cp % 64)>>
    ELSE <<240 + (cp \div 262144), 128 + ((cp \div 4096) % 64),
           128 + ((cp \div 64) % 64), 128 + (cp % 64)>>

RECURSIVE Utf8Encode(_)
Utf8Encode(t) == IF t = <<>> THEN <<>> ELSE Utf8EncodeCp(Head(t)) \o Utf8Encode(Tail(t))

\* Unicode scalar values used in the texts the properties range over.
Scalars == {65, 66, 111, 107, 233, 8364, 128512}
Texts == {<<>>} \cup {<<a>> : a \in Scalars} \cup {<<a, b>> : a, b \in Scalars}

\* The bytes of a native string, without reading past its end.
StrBytes(mem) ==
    LET nul == {i \in 1..Len(mem) : mem[i] = 0}
    IN IF nul = {} THEN mem
       ELSE SubSeq(mem, 1, (CHOOSE i \in nul : \A j \in nul : i <= j) - 1)

\* C5: Tactic::apply returns Err exactly when the native apply returned
\* null and Ok with a new ApplyResult otherwise; the Err message is the text
\* of the engine's last-error message, or the fixed fallback when those
\* bytes are not UTF-8; on Err no handle is created and none is changed.
C5_ApplyErrIffNull ==
    /\ [](ret.op = "apply" =>
            /\ ret.val = "Err" <=> ret.native = NULL
            /\ ret.val = "Ok" <=> ret.native # NULL
            /\ ret.val = "Err" =>
                 LET bytes == StrBytes(err[ret.ctx].msg)
                     texts == {t \in Texts : Utf8Encode(t) = bytes}
                 IN IF texts = {} THEN ret.msg = FallbackMsg
                    ELSE ret.msg \in {Decoded(t) : t \in texts}
            /\ ret.val = "Ok" =>
                 /\ ret.msg = NoMsg
                 /\ Handle("apply_result", ret.ctx, ret.native) \in BagToSet(handles))
    /\ [][(ret'.op = "apply" /\ ret'.val = "Err") =>
            /\ handles' = handles
            /\ heap' = heap
            /\ ctxStrong' = ctxStrong]_vars

\* An apply failed and the engine's message was not UTF-8.
C5_Witness ==
    /\ ret.op = "apply"
    /\ ret.val = "Err"
    /\ ret.msg = FallbackMsg

C5_WitnessDecoded ==
    /\ ret.op = "apply"
    /\ ret.val = "Err"
    /\ ret.msg = Decoded(<<233, 8364>>)

(***************************************************************************)
(* Properties of try_for's timeout.                                        *)
(***************************************************************************)
\* x <= y for numbers of the same width.
RECURSIVE LeFrom(_, _, _)
LeFrom(x, y, i) ==
    IF i = 0 THEN TRUE
    ELSE IF x[i] # y[i] THEN x[i] < y[i]
    ELSE LeFrom(x, y, i - 1)
Le(x, y) == LeFrom(x, y, Len(x))

\* x + k for a k below 2^31: x * 1 + k.
TotalNanos(d) == MulAdd(MulAdd(MulAdd(MulAdd(Widen(d.secs, U128Limbs),
                     1000, 0), 1000, 0), 1000, 0), 1, d.nanos)

\* C10: try_for passes the timeout in whole milliseconds unchanged when it
\* fits the native unsigned width and passes c_uint::MAX whenever it does
\* not; it never wraps and always returns a value.
C10_TimeoutClamped ==
    tf.called =>
        \E ms \in {as_millis(tf.d)} :
            \* ms is the whole number of milliseconds of the Duration
            /\ MulAdd(MulAdd(ms, 1000, 0), 1000, tf.d.nanos % 1000000)
                   = TotalNanos(tf.d)
            /\ Len(tf.passed) = 2
            /\ Le(ms, Widen(C_UINT_MAX, U128Limbs))
                   => Widen(tf.passed, U128Limbs) = ms
            /\ ~Le(ms, Widen(C_UINT_MAX, U128Limbs))
                   => tf.passed = C_UINT_MAX

\* 4294967.296 s is one millisecond more than c_uint::MAX: clamped.
C10_Witness ==
    /\ tf.called
    /\ tf.d = [secs |-> Limbs(4294967, U64Limbs), nanos |-> 296000000]
    /\ tf.passed = C_UINT_MAX
    /\ timeout_ms_truncating(tf.d) = <<0, 0>>

\* 4294967.295 s is exactly c_uint::MAX milliseconds: passed unchanged.
C10_WitnessFits ==
    /\ tf.called
    /\ tf.d = [secs |-> Limbs(4294967, U64Limbs), nanos |-> 295999999]
    /\ tf.passed = C_UINT_MAX

(***************************************************************************)
(* Properties of model iteration.                                          *)
(***************************************************************************)
\* The declarations of a model with nc constants and nf functions, in order.
Expected(nc, nf) ==
    [k \in 1..(nc + nf) |->
        IF k <= nc THEN [kind |-> "const", i |-> k - 1, null |-> FALSE]
        ELSE [kind |-> "func", i |-> k - 1 - nc, null |-> FALSE]]

\* C6: an iteration yields exactly numConstants + numFunctions declarations
\* for the counts read when the iterator was made, whatever the counts are
\* later: the constants 0..numConstants-1 in order, then the functions
\* 0..numFunctions-1 in order; every iter() starts at index 0.
C6_IterationOrder ==
    iter.active =>
        /\ iter.len = iter.nc0 + iter.nf0
        /\ Len(iter.out) = iter.idx
        /\ iter.idx <= iter.len
        /\ iter.last = "iter" => iter.idx = 0 /\ iter.out = <<>>
        /\ iter.last = "None" => iter.idx = iter.len
        /\ \A k \in 1..Len(iter.out) : iter.out[k] = Expected(iter.nc0, iter.nf0)[k]

(***************************************************************************)
(* Properties of the interpretation lookups.                               *)
(***************************************************************************)
\* C8: get_func_interp_as_const returns None for every declaration of
\* arity > 0 without consulting the model; for arity 0 it returns the
\* model's constant interpretation when there is one and None otherwise.
C8_AsConstOnlyForConstants ==
    (call.fn = "get_func_interp_as_const" /\ call.st = "done") =>
        LET d == call.root
        IN /\ decls[d].arity > 0 => call.res = None /\ ~call.consulted
           /\ decls[d].arity = 0 /\ decls[d].ci.null => call.res = None
           /\ decls[d].arity = 0 /\ ~decls[d].ci.null =>
                  call.res.some /\ call.res.v = decls[d].ci

\* A function declaration was asked for as a constant.
C8_Witness ==
    /\ call.fn = "get_func_interp_as_const"
    /\ call.st = "done"
    /\ decls[call.root].arity > 0
    /\ decls[call.root].fi
    /\ call.res = None

C8_WitnessConst ==
    /\ call.fn = "get_func_interp_as_const"
    /\ call.st = "done"
    /\ decls[call.root].arity = 0
    /\ call.res.some

\* The declaration a constant's as-array value refers to, when
\* get_func_interp follows it.
Follows(d) ==
    /\ decls[d].arity = 0
    /\ ~decls[d].ci.null
    /\ decls[d].range = "Array"
    /\ decls[d].ci.as_array

\* C9: get_func_interp returns, for arity > 0, the native function
\* interpretation if there is one and None otherwise; for arity 0, None
\* when the constant has no interpretation, its range is not an array sort
\* or its value is not an as-array value, and otherwise the result of
\* get_func_interp on the declaration that value refers to.
C9_FuncInterpResolution ==
    (call.fn = "get_func_interp" /\ call.st = "done") =>
        LET n == Len(call.path)
            last == call.path[n]
        IN /\ call.path[1] = call.root
           /\ \A i \in 1..(n - 1) :
                  Follows(call.path[i]) /\ decls[call.path[i]].ci.fd = call.path[i + 1]
           /\ ~Follows(last)
           /\ decls[last].arity > 0 /\ decls[last].fi => call.res = SomeInterp(last)
           /\ decls[last].arity > 0 /\ ~decls[last].fi => call.res = None
           /\ decls[last].arity = 0 => call.res = None

\* An array constant was resolved through its as-array value to the
\* interpretation of the function it names.
C9_Witness ==
    /\ call.fn = "get_func_interp"
    /\ call.st = "done"
    /\ Len(call.path) = 2
    /\ call.res = SomeInterp(call.path[2])

\* An as-array value on a constant whose range is not an array sort.
C9_WitnessNotArray ==
    /\ call.fn = "get_func_interp"
    /\ call.st = "done"
    /\ decls[call.root].arity = 0
    /\ decls[call.root].ci.as_array
    /\ decls[call.root].range = "Int"
    /\ call.res = None

(***************************************************************************)
(* Properties of list_subgoals.                                            *)
(***************************************************************************)
\* C7: list_subgoals consumes the ApplyResult and yields exactly the native
\* number of subgoals in native index order, each as a Goal handle with a
\* reference of its own; the ApplyResult's one dec_ref happens when the
\* iterator is dropped, never before a get-subgoal call that uses it, and
\* the Goals already yielded keep their own reference after it.
C7_SubgoalsInOrder ==
    /\ ~sub.uaf
    /\ sub.state = "iter" =>
          /\ IsLive(heap, sub.ar.ptr)
          /\ heap[sub.ar.ptr].rc = 1
          /\ ~BagIn(sub.ar, handles)
          /\ ctxStrong[sub.ar.ctx] >= 1
          /\ sub.num = Z3_apply_result_get_num_subgoals(gheap)
    /\ sub.state = "spent" => ~IsLive(heap, sub.ar.ptr)
    /\ sub.state # "none" =>
          /\ Len(goals) = sub.i
          /\ sub.i <= sub.num
          /\ sub.exhausted => sub.i = sub.num
          /\ \A k \in 1..Len(goals) :
                /\ goals[k].ptr = k
                /\ goals[k].live =>
                      /\ GoalLive(gheap, k)
                      /\ gheap[k].rc = 1 + (IF gheap[k].held THEN 1 ELSE 0)
                      /\ ctxStrong[sub.ar.ctx] >= 1

\* All subgoals were yielded, the iterator was dropped, and a Goal outlives
\* the ApplyResult on its own reference.
C7_Witness ==
    /\ sub.state = "spent"
    /\ sub.exhausted
    /\ Len(goals) = MaxSubgoals
    /\ goals[1].live
    /\ ~gheap[1].held
    /\ gheap[1].rc = 1

(***************************************************************************)
(* Properties of the tactic combinators.                                   *)
(***************************************************************************)
Combinators == {"repeat", "try_for", "and_then", "or_else", "probe_or_else",
                "when", "cond", "fail_if"}

\* C11: every combinator returns a new Tactic handle and leaves its inputs
\* as they were: the handles that existed keep their pointers and contexts,
\* the objects they wrap keep their reference counts, the new handle holds a
\* context reference of its own, and dropping a tactic leaves every other
\* handle valid.
C11_CombinatorsLeaveInputs ==
    /\ [][ret'.op \in Combinators =>
            LET made == Handle("tactic", ret'.ctx, ret'.native)
            IN /\ handles' = handles (+) One(made)
               /\ ret'.native # NULL => ~IsLive(heap, ret'.native)
               /\ \A o \in Obj : IsLive(heap, o) => heap'[o] = heap[o]
               /\ \A c \in Ctx :
                     ctxStrong'[c] - userRc'[c] =
                        ctxStrong[c] - userRc[c] + (IF c = ret'.ctx THEN 1 ELSE 0)]_vars
    /\ [](ret.op = "drop_tactic" =>
            \A h \in BagToSet(handles) :
                /\ ctxStrong[h.ctx] >= 1
                /\ h.ptr # NULL => IsLive(heap, h.ptr) /\ heap[h.ptr].rc >= 1)

\* and_then made a new tactic next to the one it was called on.
C11_Witness ==
    /\ ret.op = "and_then"
    /\ ret.native # NULL
    /\ \E h \in BagToSet(handles) :
          h.kind = "tactic" /\ h.ptr # NULL /\ h.ptr # ret.native

(***************************************************************************)
(* Properties of evaluation.                                               *)
(***************************************************************************)
\* C12: for a constant the model does not interpret, get_const_interp
\* returns None and eval with model completion returns Some; eval returns
\* Some exactly when the native evaluation reports success; neither call
\* changes the model.
C12_EvalLeavesModel ==
    /\ (ev.op = "get_const_interp" /\ ev.e.kind = "const" /\ ev.e.d \notin ev.before)
           => ev.res = "None"
    /\ (ev.op = "eval" /\ ev.e.kind = "const" /\ ev.e.d \notin ev.before /\ ev.mc)
           => ev.res = "Some"
    /\ ev.op = "eval" => (ev.res = "Some" <=> ev.native)
    /\ ev.op # "none" => present = ev.before

C14_UnlistedNameFailsAtApply ==
    bn.name = "unlisted" =>
        /\ bn.phase \notin {"crashed", "panicked"}
        /\ (bn.phase = "applied" /\ ret.op = "apply") => ret.val = "Err"

\* C15: Tactic::new with a name holding a NUL byte panics before any native
\* call: no native tactic is made and no native reference count changes;
\* and nothing else in these files ends other than by returning a value.
C15_NulNameOnlyAbort ==
    /\ [][(bn.phase = "none" /\ bn'.phase # "none" /\ bn'.name = "embedded_nul") =>
            /\ bn'.phase = "panicked"
            /\ ret'.val = "Panic"
            /\ ret'.native = NULL
            /\ heap' = heap /\ handles' = handles]_vars
    /\ [](bn.phase \in {"panicked", "crashed"} => bn.name = "embedded_nul")

(***************************************************************************)
(* Properties of rendering.                                                *)
(***************************************************************************)
\* C16: rendering a Model or a Tactic returns a formatting error and writes
\* nothing when the engine's pointer is null or its bytes are not UTF-8,
\* and otherwise writes exactly the engine's string; Debug does what
\* Display does.
C16_RenderOrFormatError ==
    fm.who # "none" =>
        LET texts == IF fm.p.null THEN {}
                     ELSE {t \in Texts : Utf8Encode(t) = StrBytes(fm.p.mem)}
        IN /\ fm.res \in {"Ok", "Err"}
           /\ texts = {} => fm.res = "Err" /\ fm.out = fm.f
           /\ texts # {} => fm.res = "Ok" /\ \E t \in texts : fm.out = fm.f \o t

\* Debug of a Tactic whose help string the engine could not give.
C16_Witness ==
    /\ fm.who = "tactic"
    /\ fm.how = "Debug"
    /\ fm.p.null
    /\ fm.res = "Err"

C16_WitnessInvalid ==
    /\ fm.who = "model"
    /\ fm.how = "Display"
    /\ fm.p = Str(<<237, 160, 128, 0>>)
    /\ fm.res = "Err"

C16_WitnessText ==
    /\ fm.who = "model"
    /\ fm.how = "Debug"
    /\ fm.res = "Ok"
    /\ fm.out = <<109, 61, 233, 8364>>

(***************************************************************************)
(* Properties of composed tactics.                                         *)
(***************************************************************************)
RECURSIVE Concat(_)
Concat(ss) == IF ss = <<>> THEN <<>> ELSE Head(ss) \o Concat(Tail(ss))

\* C17: applying t1.and_then(t2) to a goal gives t2's subgoals on every
\* subgoal t1 produced on that goal, one after the other in order, and
\* fails if t1 fails on the goal or t2 fails on one of t1's subgoals.
C17_AndThenSequences ==
    (app.state # "none" /\ strat[app.t].by = "and_then") =>
        LET first == Run(tnode, strat[app.t].self, app.g)
            second == [i \in 1..Len(first.goals) |->
                          Run(tnode, strat[app.t].arg, first.goals[i])]
        IN IF ~first.ok \/ \E i \in 1..Len(first.goals) : ~second[i].ok
           THEN app.val = "Err"
           ELSE /\ app.val = "Ok"
                /\ app.state = "listed" =>
                      app.listed = Concat([i \in 1..Len(first.goals) |-> second[i].goals])

\* split.and_then(simplify) on goal 3: split gives 1, 2; simplify gives 0, 1.
C17_Witness ==
    /\ app.state = "listed"
    /\ strat[app.t].by = "and_then"
    /\ strat[strat[app.t].self].by = "split"
    /\ strat[strat[app.t].arg].by = "simplify"
    /\ app.g = 3
    /\ app.listed = <<0, 1>>

\* split.and_then(strict) on goal 3: strict fails on split's first subgoal.
C17_WitnessSecondFails ==
    /\ app.state = "applied"
    /\ strat[app.t].by = "and_then"
    /\ strat[strat[app.t].self].by = "split"
    /\ strat[strat[app.t].arg].by = "strict"
    /\ app.g = 3
    /\ app.val = "Err"

\* C18: repeat(create_fail(), n) applied to any goal returns Err, for
\* every n >= 0.
C18_RepeatFailFails ==
    (/\ app.state # "none"
     /\ strat[app.t].by = "repeat"
     /\ strat[strat[app.t].arg].by = "create_fail") => app.val = "Err"

C18_Witness ==
    /\ app.state = "applied"
    /\ strat[app.t].by = "repeat"
    /\ strat[app.t].max = 0
    /\ strat[strat[app.t].arg].by = "create_fail"
    /\ app.val = "Err"

C18_WitnessMore ==
    /\ app.state = "applied"
    /\ strat[app.t].by = "repeat"
    /\ strat[app.t].max = MaxRepeat
    /\ strat[strat[app.t].arg].by = "create_fail"
    /\ app.val = "Err"

(***************************************************************************)
(* Termination of get_func_interp.                                         *)
(***************************************************************************)
RECURSIVE ChainEnds(_, _)
ChainEnds(d, fuel) ==
    IF ~Follows(d) THEN TRUE
    ELSE IF fuel = 0 THEN FALSE
    ELSE ChainEnds(decls[d].ci.fd, fuel - 1)

\* A chain that never repeats a declaration has at most MaxDecl of them.
Acyclic(d) == ChainEnds(d, MaxDecl)

\* C19: get_func_interp returns on every model whose as-array chain from
\* the queried declaration is acyclic, each recursive call following the
\* chain by one declaration; on a chain that leads back into itself the
\* call never returns.
C19_TerminatesIffAcyclic ==
    /\ (call.fn = "get_func_interp" /\ call.st = "run" /\ Acyclic(call.root))
           ~> (call.fn = "get_func_interp" /\ call.st = "done")
    /\ [][(call.fn = "get_func_interp" /\ call.st = "run" /\ call'.st = "run"
           /\ call' # call) =>
              LET n == Len(call.path)
              IN /\ Follows(call.path[n])
                 /\ call'.path = Append(call.path, decls[call.path[n]].ci.fd)]_vars
    /\ []((call.fn = "get_func_interp" /\ ~Acyclic(call.root)) => call.st # "done")

\* A call has returned after following a chain through every declaration.
C19_Witness ==
    /\ call.fn = "get_func_interp"
    /\ call.st = "done"
    /\ Acyclic(call.root)
    /\ Len(call.path) = MaxDecl

\* A call on a constant whose as-array value names the constant itself is
\* still descending.
C19_WitnessCycle ==
    /\ call.fn = "get_func_interp"
    /\ call.st = "run"
    /\ decls[call.root].ci.fd = call.root
    /\ Follows(call.root)
    /\ Len(call.path) = MaxDepth

(***************************************************************************)
(* Invariants of ModelIter.                                                *)
(***************************************************************************)
\* C20: 0 <= idx <= len always; a next() either yields a declaration and
\* advances idx by exactly one or yields None and leaves idx as it is; after
\* a None every later next() yields None; size_hint is exactly the number
\* of declarations still to come, len - idx; and while the model's counts
\* are those the iteration began with, every index handed to the native
\* getters is below the native count.
C20_IterBounds ==
    /\ [](iter.active =>
            /\ 0 <= iter.idx /\ iter.idx <= iter.len
            /\ ~size_hint(iter).underflow
            /\ size_hint(iter).lower = iter.len - Len(iter.out)
            /\ size_hint(iter).upper = size_hint(iter).lower
            /\ iter.last = "None" => size_hint(iter).lower = 0
            /\ (counts.nc = iter.nc0 /\ counts.nf = iter.nf0) =>
                   \A k \in 1..Len(iter.out) :
                       /\ ~iter.out[k].null
                       /\ iter.out[k].kind = "const" => iter.out[k].i < counts.nc
                       /\ iter.out[k].kind = "func" => iter.out[k].i < counts.nf)
    /\ [][(iter.active /\ iter' # iter /\ iter'.last # "iter") =>
            \/ /\ iter'.last = "Some"
               /\ iter'.idx = iter.idx + 1
               /\ Len(iter'.out) = Len(iter.out) + 1
               /\ size_hint(iter').lower = size_hint(iter).lower - 1
            \/ /\ iter'.last = "None"
               /\ iter'.idx = iter.idx
               /\ iter'.out = iter.out]_vars
    /\ [][(iter.active /\ iter.last = "None" /\ iter'.last # "iter") =>
            iter'.last = "None"]_vars

\* None was returned, the model has grown since, and None is returned still.
C20_Witness ==
    /\ iter.active
    /\ iter.last = "None"
    /\ iter.len > 0
    /\ counts.nc + counts.nf > iter.len

\* Half way through an iteration over a model that has not changed.
C20_WitnessUnchanged ==
    /\ iter.active
    /\ iter.last = "Some"
    /\ counts.nc = iter.nc0 /\ counts.nf = iter.nf0
    /\ iter.idx = counts.nc + 1
    /\ size_hint(iter).lower = counts.nf - 1
    /\ counts.nf = MaxCount

====
